---- MODULE Spec2Model ----
(***************************************************************************)
(* Model of invisible_cities/reco/xy_algorithms.py: the algorithm registry *)
(* find_algorithm, the barycenter reducer, the helpers discard_sipms,      *)
(* get_nearby_sipm_inds and count_masked, and the corona clusterer.        *)
(*                                                                         *)
(* Positions are integer grid points.  A barycenter position is the exact  *)
(* rational <<sum(q*x), sum(q*y), sum(q)>> (numerators and the common      *)
(* denominator), and a distance test compares squared distances scaled by  *)
(* the squared denominator, so no rounding takes place.                    *)
(***************************************************************************)
EXTENDS Integers, Sequences, FiniteSets

\* ------------------------------------------------------------------ bounds
MaxSensors == 3

\* The detector grid: the (X, Y) columns of the sensor metadata table.
Grid == << <<0, 0>>, <<1, 0>>, <<2, 0>>, <<1, 1>> >>

Charges    == {-1, 0, 1, 2}
QthrValues == {0, 2}
QlmValues  == {0, 2, 3}
LmRadii    == {0, 2}
NewLmRadii == {0, 1}
Msipms     == {0, 2}
\* Sets of table rows whose Active flag is off.
InactiveSets == {{}, {2}}
MaxIters   == MaxSensors + 2

\* Names looked up in the registry: strategies, other module-level names,
\* and names the module does not bind.
LookupNames == {"barycenter", "corona", "np", "discard_sipms", "count_masked",
                "Cluster", "kmeans", "Corona"}

\* ------------------------------------------------------- sequence helpers
RECURSIVE Sum(_)
Sum(s) == IF s = <<>> THEN 0 ELSE Head(s) + Sum(Tail(s))

RECURSIVE SetToSortedSeq(_)
SetToSortedSeq(S) ==
    IF S = {} THEN <<>>
    ELSE LET m == CHOOSE x \in S : \A y \in S : x <= y
         IN  <<m>> \o SetToSortedSeq(S \ {m})

Range(s) == {s[i] : i \in 1..Len(s)}

\* numpy fancy indexing arr[inds]: the elements at inds, in the order of inds.
Take(arr, inds) == [k \in 1..Len(inds) |-> arr[inds[k]]]

\* np.where(cond)[0]: the indices where cond holds (the set T), increasing.
Where(T) == SetToSortedSeq(T)

\* np.delete(arr, sis): arr without the elements at the indices sis.
np_delete(arr, sis) ==
    Take(arr, SetToSortedSeq({i \in 1..Len(arr) : i \notin Range(sis)}))

\* np.argmin in place of np.argmax.
argmin(qs) ==
    CHOOSE i \in 1..Len(qs) :
        /\ \A j \in 1..Len(qs) : qs[i] <= qs[j]
        /\ \A j \in 1..(i - 1) : qs[i] <  qs[j]

\* np.argmax: the first index holding the maximum.
argmax(qs) ==
    CHOOSE i \in 1..Len(qs) :
        /\ \A j \in 1..Len(qs) : qs[j] <= qs[i]
        /\ \A j \in 1..(i - 1) : qs[j] <  qs[i]

\* ------------------------------------------------------------ the registry
\* The names bound in the module's namespace: its imports (lines 1-17), its
\* functions, and the attributes every module carries.
ModuleNamespace ==
    {"sys", "np", "pd", "weighted_mean_and_var", "units", "SipmEmptyList",
     "SipmZeroCharge", "SipmEmptyListAboveQthr", "SipmZeroChargeAboveQthr",
     "ClusterEmptyList", "check_annotations", "xy", "Cluster", "Optional",
     "find_algorithm", "barycenter", "discard_sipms", "get_nearby_sipm_inds",
     "count_masked", "corona", "__name__", "__doc__", "__file__"}

\* The clustering strategies of the module.
Strategies == {"barycenter", "corona"}

\* find_algorithm: the object bound to algoname, or ValueError.
find_algorithm(algoname) ==
    IF algoname \in ModuleNamespace
    THEN [exc |-> "none",       obj |-> algoname]
    ELSE [exc |-> "ValueError", obj |-> "none"]

\* ------------------------------------------------------------- barycenter
\* Weighted mean and variance along the point axis, as exact rationals:
\* mean = <<sum(q*x), sum(q*y), sum(q)>>, the last entry being the common
\* denominator; var = <<S*sum(q*x^2) - sum(q*x)^2, (same for y), S^2>>.
weighted_mean_and_var(pos, qs) ==
    LET S   == Sum(qs)
        Mx  == Sum([i \in 1..Len(qs) |-> qs[i] * pos[i][1]])
        My  == Sum([i \in 1..Len(qs) |-> qs[i] * pos[i][2]])
        Mxx == Sum([i \in 1..Len(qs) |-> qs[i] * pos[i][1] * pos[i][1]])
        Myy == Sum([i \in 1..Len(qs) |-> qs[i] * pos[i][2] * pos[i][2]])
    IN  [mu  |-> <<Mx, My, S>>,
         var |-> <<S * Mxx - Mx * Mx, S * Myy - My * My, S * S>>]

Cluster(Q, posxy, var, nsipm) ==
    [Q |-> Q, posxy |-> posxy, var |-> var, nsipm |-> nsipm]

\* The charge sum is tested before the length.
barycenter_sum_first(pos, qs) ==
    IF Sum(qs) = 0 THEN [exc |-> "SipmZeroCharge", clusters |-> <<>>]
    ELSE IF Len(pos) = 0 THEN [exc |-> "SipmEmptyList", clusters |-> <<>>]
    ELSE LET mv == weighted_mean_and_var(pos, qs)
         IN  [exc      |-> "none",
              clusters |-> << Cluster(Sum(qs), mv.mu, mv.var, Len(qs)) >>]

barycenter(pos, qs) ==
    IF Len(pos) = 0 THEN [exc |-> "SipmEmptyList", clusters |-> <<>>]
    ELSE IF Sum(qs) = 0 THEN [exc |-> "SipmZeroCharge", clusters |-> <<>>]
    ELSE LET mv == weighted_mean_and_var(pos, qs)
         IN  [exc      |-> "none",
              clusters |-> << Cluster(Sum(qs), mv.mu, mv.var, Len(qs)) >>]

\* ---------------------------------------------------------------- helpers
\* Only the first sensor of the region is deleted.
discard_first_only(sis, pos, qs) ==
    IF Len(sis) = 0 THEN <<pos, qs>>
    ELSE << np_delete(pos, <<sis[1]>>), np_delete(qs, <<sis[1]>>) >>

\* Nothing is deleted.
discard_nothing(sis, pos, qs) == << pos, qs >>

\* The region is deleted from pos but not from qs.
discard_pos_only(sis, pos, qs) == << np_delete(pos, sis), qs >>

discard_sipms(sis, pos, qs) == << np_delete(pos, sis), np_delete(qs, sis) >>

\* A plain point as a rational position.
AsCenter(p) == <<p[1], p[2], 1>>

\* The boundary is left out ("less than d", as the docstring puts it).
get_nearby_strict(cs, d, pos) ==
    LET dx(i) == pos[i][1] * cs[3] - cs[1]
        dy(i) == pos[i][2] * cs[3] - cs[2]
        near(i) == dx(i) * dx(i) + dy(i) * dy(i) < d * d * cs[3] * cs[3]
    IN  Where({i \in 1..Len(pos) : near(i)})

\* |pos[i] - cs| <= d for the rational center cs = <<nx, ny, den>>, den # 0:
\* both sides squared and multiplied by den^2.
get_nearby_sipm_inds(cs, d, pos) ==
    LET dx(i) == pos[i][1] * cs[3] - cs[1]
        dy(i) == pos[i][2] * cs[3] - cs[2]
        near(i) == dx(i) * dx(i) + dy(i) * dy(i) <= d * d * cs[3] * cs[3]
    IN  Where({i \in 1..Len(pos) : near(i)})

\* The active rows in range are counted (the negation is missing).
count_active(cs, d, datasipm, is_masked) ==
    IF is_masked.none THEN 0
    ELSE LET pos     == [i \in 1..Len(datasipm) |-> <<datasipm[i].X, datasipm[i].Y>>]
             indices == get_nearby_sipm_inds(cs, d, pos)
         IN  Cardinality({k \in 1..Len(indices) : is_masked.values[indices[k]]})

\* is_masked is [none |-> TRUE] for None, else the Active column.
count_masked(cs, d, datasipm, is_masked) ==
    IF is_masked.none THEN 0
    ELSE LET pos     == [i \in 1..Len(datasipm) |-> <<datasipm[i].X, datasipm[i].Y>>]
             indices == get_nearby_sipm_inds(cs, d, pos)
         IN  Cardinality({k \in 1..Len(indices) : ~ is_masked.values[indices[k]]})

\* The comparison the wrong way round: the sensors up to Qthr are kept.
above_threshold_inverted(qs, thr) == Where({i \in 1..Len(qs) : qs[i] <= thr})

\* The sensors of charge exactly Qthr are dropped too.
above_threshold_strict(qs, thr) == Where({i \in 1..Len(qs) : qs[i] > thr})

\* np.where(qs >= Qthr)[0]
above_threshold(qs, thr) == Where({i \in 1..Len(qs) : qs[i] >= thr})

\* The zero-charge check is missing.
precheck_empty_only(pos, qs) ==
    IF Len(pos) = 0 THEN "SipmEmptyList" ELSE "none"

\* Lines 146-147: the pre-threshold check.
precheck(pos, qs) ==
    IF Len(pos) = 0 THEN "SipmEmptyList"
    ELSE IF Sum(qs) = 0 THEN "SipmZeroCharge"
    ELSE "none"

\* The two checks in the other order.
postcheck_sum_first(pos, qs) ==
    IF Sum(qs) = 0 THEN "SipmZeroChargeAboveQthr"
    ELSE IF Len(pos) = 0 THEN "SipmEmptyListAboveQthr"
    ELSE "none"

\* Lines 154-155: the check after the threshold.
postcheck(pos, qs) ==
    IF Len(pos) = 0 THEN "SipmEmptyListAboveQthr"
    ELSE IF Sum(qs) = 0 THEN "SipmZeroChargeAboveQthr"
    ELSE "none"

\* The comparison the wrong way round.
negligible_inverted(q, lm) == lm < q

\* Line 162: the largest remaining charge is negligible.
negligible(q, lm) == q < lm

\* An empty region is never accepted.
enough_sipms_floor(n_region, min_sipm, n_masked_neighbours) ==
    n_region >= 1 /\ n_region >= min_sipm - n_masked_neighbours

\* The acceptance test of line 174.
enough_sipms(n_region, min_sipm, n_masked_neighbours) ==
    n_region >= min_sipm - n_masked_neighbours

\* ------------------------------------------------------------------ state
VARIABLES
    pc,               \* idle, resolved, ready, loop, end, done
    algo,             \* the object find_algorithm returned ("none" before)
    caller_pos,       \* the caller's position array
    caller_qs,        \* the caller's charge array
    all_sipms,        \* the sensor metadata table: rows [X, Y, Active]
    Qthr, Qlm, lm_radius, new_lm_radius, msipm, consider_masked,
    pos, qs,          \* corona's local pos and qs
    ids,              \* for each local sensor, its index in the caller's arrays
    c,                \* corona's local cluster list
    members,          \* for each cluster of c, the caller indices it summarizes
    seeds,            \* for each cluster of c, the charge of its hottest_sipm
    last,             \* what the latest pass of the loop body found
    iters,            \* loop bodies entered so far
    outcome,          \* running, returned, or the exception raised
    ret               \* the returned list (<<>> unless outcome = "returned")

args   == <<caller_pos, caller_qs, all_sipms, Qthr, Qlm, lm_radius,
            new_lm_radius, msipm, consider_masked>>
locals == <<pos, qs, ids, c, members, seeds, last, iters>>
vars   == <<pc, algo, args, locals, outcome, ret>>

\* The table over Grid with the rows of `inactive` switched off.
Table(inactive) ==
    [i \in 1..Len(Grid) |->
        [X |-> Grid[i][1], Y |-> Grid[i][2], Active |-> i \notin inactive]]

\* The events: at most MaxSensors sensors of the grid, in table order.
SensorSets == {S \in SUBSET (1..Len(Grid)) : Cardinality(S) <= MaxSensors}

\* last: grown says a region was grown (line 169 was reached); hottest is
\* the caller index of hottest_sipm, peak is new_local_maximum, region the
\* caller indices within new_lm_radius of it, and c_before is len(c) when
\* the pass began; within_lm and within_new are the index arrays
\* within_lm_radius and within_new_lm_radius (indices into the local pos).
NoPass == [grown |-> FALSE, hottest |-> 0, peak |-> <<0, 0, 0>>,
           region |-> {}, c_before |-> 0,
           within_lm |-> <<>>, within_new |-> <<>>]

Init ==
    /\ pc = "idle"
    /\ algo = "none"
    /\ caller_pos = <<>>
    /\ caller_qs = <<>>
    /\ all_sipms = Table({})
    /\ Qthr = 0 /\ Qlm = 0 /\ lm_radius = 0 /\ new_lm_radius = 0
    /\ msipm = 0 /\ consider_masked = FALSE
    /\ pos = <<>> /\ qs = <<>> /\ ids = <<>>
    /\ c = <<>> /\ members = <<>> /\ seeds = <<>>
    /\ last = NoPass
    /\ iters = 0
    /\ outcome = "running"
    /\ ret = <<>>

\* The caller resolves a strategy by name.
FindAlgorithm ==
    /\ pc = "idle"
    /\ \E algoname \in LookupNames :
         LET r == find_algorithm(algoname)
         IN  /\ algo' = r.obj
             /\ IF r.exc = "none"
                THEN pc' = "resolved" /\ UNCHANGED outcome
                ELSE pc' = "done" /\ outcome' = r.exc
    /\ UNCHANGED <<args, locals, ret>>

\* The caller's event: positions and charges of the sensors S.
EventPos(S)   == [k \in 1..Cardinality(S) |-> Grid[SetToSortedSeq(S)[k]]]
EventQs(S, q) == [k \in 1..Cardinality(S) |-> q[SetToSortedSeq(S)[k]]]

\* barycenter called on the caller's event.
CallBarycenter ==
    /\ pc = "resolved" /\ algo = "barycenter"
    /\ \E S \in SensorSets : \E q \in [S -> Charges] :
         LET b == barycenter(EventPos(S), EventQs(S, q))
         IN  /\ caller_pos' = EventPos(S)
             /\ caller_qs'  = EventQs(S, q)
             /\ outcome' = IF b.exc = "none" THEN "returned" ELSE b.exc
             /\ ret' = b.clusters
    /\ pc' = "done"
    /\ UNCHANGED <<algo, all_sipms, Qthr, Qlm, lm_radius, new_lm_radius,
                   msipm, consider_masked, locals>>

\* corona is entered: the arguments are bound and the radii are
\* non-negative (lines 143-144); pos and qs name the caller's arrays.
CallCorona ==
    /\ pc = "resolved" /\ algo = "corona"
    /\ \E S \in SensorSets : \E q \in [S -> Charges] :
         /\ caller_pos' = EventPos(S)
         /\ caller_qs'  = EventQs(S, q)
         /\ pos' = EventPos(S)
         /\ qs'  = EventQs(S, q)
         /\ ids' = [k \in 1..Cardinality(S) |-> k]
    /\ \E inactive \in InactiveSets : all_sipms' = Table(inactive)
    /\ Qthr' \in QthrValues
    /\ Qlm' \in QlmValues
    /\ lm_radius' \in LmRadii
    /\ new_lm_radius' \in NewLmRadii
    /\ msipm' \in Msipms
    /\ consider_masked' \in BOOLEAN
    /\ pc' = "ready"
    /\ UNCHANGED <<algo, c, members, seeds, last, iters, outcome, ret>>

\* raise: the call ends with the exception and returns nothing.
Raise(e) == pc' = "done" /\ outcome' = e /\ ret' = <<>>

\* Lines 151-152: pos and qs are rebound to the selected sensors.
Threshold(above) ==
    /\ pos' = Take(pos, above)
    /\ qs'  = Take(qs, above)
    /\ ids' = Take(ids, above)
    /\ UNCHANGED <<caller_pos, caller_qs>>

\* Lines 146-155: the checks before and after the threshold.
CoronaBegin ==
    /\ pc = "ready"
    /\ IF precheck(pos, qs) # "none"
       THEN /\ Raise(precheck(pos, qs))
            /\ UNCHANGED <<pos, qs, ids, caller_pos, caller_qs>>
       ELSE LET above == above_threshold(qs, Qthr)
                after == postcheck(Take(pos, above), Take(qs, above))
            IN  /\ Threshold(above)
                /\ IF after # "none"
                   THEN Raise(after)
                   ELSE pc' = "loop" /\ UNCHANGED <<outcome, ret>>
    /\ UNCHANGED <<algo, all_sipms, Qthr, Qlm, lm_radius, new_lm_radius,
                   msipm, consider_masked, c, members, seeds, last, iters>>

\* Line 149.
masked == IF consider_masked
          THEN [none |-> FALSE, values |-> [i \in 1..Len(all_sipms) |-> all_sipms[i].Active]]
          ELSE [none |-> TRUE,  values |-> <<>>]

\* The region is deleted from the caller's arrays too.
DiscardInPlace(sis) ==
    /\ pos' = discard_sipms(sis, pos, qs)[1]
    /\ qs'  = discard_sipms(sis, pos, qs)[2]
    /\ ids' = discard_sipms(sis, ids, qs)[1]
    /\ caller_pos' = pos'
    /\ caller_qs'  = qs'

\* Line 178: pos and qs are rebound to the arrays without the region.
Discard(sis) ==
    /\ pos' = discard_sipms(sis, pos, qs)[1]
    /\ qs'  = discard_sipms(sis, pos, qs)[2]
    /\ ids' = discard_sipms(sis, ids, qs)[1]
    /\ UNCHANGED <<caller_pos, caller_qs>>

\* Lines 159-178: the loop test and one pass of the loop body.
Iterate ==
    /\ pc = "loop"
    /\ iters < MaxIters
    /\ IF Len(qs) = 0
       THEN /\ pc' = "end"
            /\ UNCHANGED <<pos, qs, ids, caller_pos, caller_qs, c, members, seeds, last, iters, outcome, ret>>
       ELSE
        LET hottest_sipm == argmax(qs) IN
        /\ iters' = iters + 1
        /\ IF negligible(qs[hottest_sipm], Qlm)
           THEN /\ pc' = "end"
                /\ last' = NoPass
                /\ UNCHANGED <<pos, qs, ids, caller_pos, caller_qs, c, members, seeds, outcome, ret>>
           ELSE
            LET within_lm_radius == get_nearby_sipm_inds(AsCenter(pos[hottest_sipm]), lm_radius, pos)
                refined == barycenter(Take(pos, within_lm_radius), Take(qs, within_lm_radius))
            IN
            IF refined.exc # "none"
            THEN /\ Raise(refined.exc)
                 /\ last' = [NoPass EXCEPT !.hottest = ids[hottest_sipm],
                                           !.c_before = Len(c),
                                           !.within_lm = within_lm_radius]
                 /\ UNCHANGED <<pos, qs, ids, caller_pos, caller_qs, c, members, seeds>>
            ELSE
             LET new_local_maximum    == refined.clusters[1].posxy
                 within_new_lm_radius == get_nearby_sipm_inds(new_local_maximum, new_lm_radius, pos)
                 n_masked_neighbours  == count_masked(new_local_maximum, new_lm_radius, all_sipms, masked)
                 accept == enough_sipms(Len(within_new_lm_radius), msipm, n_masked_neighbours)
                 region == barycenter(Take(pos, within_new_lm_radius), Take(qs, within_new_lm_radius))
             IN
             /\ last' = [grown    |-> TRUE,
                         hottest  |-> ids[hottest_sipm],
                         peak     |-> new_local_maximum,
                         region   |-> Range(Take(ids, within_new_lm_radius)),
                         c_before |-> Len(c),
                         within_lm  |-> within_lm_radius,
                         within_new |-> within_new_lm_radius]
             /\ IF accept /\ region.exc # "none"
                THEN /\ Raise(region.exc)
                     /\ UNCHANGED <<pos, qs, ids, caller_pos, caller_qs, c, members, seeds>>
                ELSE /\ c' = IF accept THEN c \o region.clusters ELSE c
                     /\ members' = IF accept
                                   THEN Append(members, Range(Take(ids, within_new_lm_radius)))
                                   ELSE members
                     /\ seeds' = IF accept THEN Append(seeds, qs[hottest_sipm]) ELSE seeds
                     /\ Discard(within_new_lm_radius)
                     /\ pc' = "loop"
                     /\ UNCHANGED <<outcome, ret>>
    /\ UNCHANGED <<algo, all_sipms, Qthr, Qlm, lm_radius, new_lm_radius,
                   msipm, consider_masked>>

\* The list is returned without the check of line 180.
FinishUnchecked ==
    /\ pc = "end"
    /\ pc' = "done" /\ outcome' = "returned" /\ ret' = c
    /\ UNCHANGED <<algo, args, locals>>

\* Lines 180-182.
Finish ==
    /\ pc = "end"
    /\ IF Len(c) = 0
       THEN Raise("ClusterEmptyList")
       ELSE pc' = "done" /\ outcome' = "returned" /\ ret' = c
    /\ UNCHANGED <<algo, args, locals>>

Next ==
    \/ FindAlgorithm
    \/ CallBarycenter
    \/ CallCorona
    \/ CoronaBegin
    \/ Iterate
    \/ Finish

Spec == Init /\ [][Next]_vars

\* ================================================================= claims
\* corona was called: its arguments are bound.
CoronaCalled == algo = "corona" /\ pc \notin {"idle", "resolved"}
\* corona is past the checks of lines 146-155 (passed or failed).
CoronaBegun == CoronaCalled /\ pc # "ready"

\* The caller's sensors with charge at least Qthr, and charge sums over them.
Kept == {i \in 1..Len(caller_qs) : caller_qs[i] >= Qthr}
ChargeOf(S) == Sum(Take(caller_qs, SetToSortedSeq(S)))
PassedPre  == Len(caller_pos) > 0 /\ Sum(caller_qs) # 0
PassedPost == Kept # {} /\ ChargeOf(Kept) # 0

\* The point p lies within d of the rational center cs.
InRange(p, cs, d) ==
    (p[1] * cs[3] - cs[1]) * (p[1] * cs[3] - cs[1])
  + (p[2] * cs[3] - cs[2]) * (p[2] * cs[3] - cs[2])  <=  d * d * cs[3] * cs[3]

\* C1: every loop iteration either exits the loop or strictly shrinks the
\* working set, so the loop body runs at most N times for N input sensors.
C1_LoopTerminates ==
    /\ [](iters <= Len(caller_qs))
    /\ [][(pc = "loop" /\ iters' = iters + 1)
            => (pc' # "loop" \/ Len(qs') < Len(qs))]_vars

\* C2: the sets of input sensors summarized by any two clusters of the list
\* are disjoint (each cluster's n_sensors and charge are those of its set).
C2_DisjointClusters ==
    /\ Len(members) = Len(c)
    /\ \A k \in 1..Len(c) :
         /\ c[k].nsipm = Cardinality(members[k])
         /\ c[k].Q = ChargeOf(members[k])
    /\ \A i, j \in 1..Len(members) : i # j => members[i] \cap members[j] = {}
    /\ (CoronaCalled /\ outcome = "returned") => ret = c

C2_Witness == CoronaCalled /\ outcome = "returned" /\ Len(ret) >= 2

\* C3: a call that returns normally returns a non-empty list, and when the
\* loop has finished with no accepted region the call raises
\* ClusterEmptyList instead of returning.
C3_NeverEmptyOnSuccess ==
    /\ [](outcome = "returned" => Len(ret) > 0)
    /\ [][pc = "end" =>
            IF Len(c) = 0
            THEN outcome' = "ClusterEmptyList" /\ ret' = <<>>
            ELSE outcome' = "returned" /\ ret' = c]_vars

\* Every region was rejected: sensors were removed, none accepted.
C3_Witness ==
    /\ outcome = "ClusterEmptyList"
    /\ Len(qs) < Cardinality(Kept)

\* C4: for every configuration, an event with no sensors raises
\* SipmEmptyList and a non-empty event of total charge zero raises
\* SipmZeroCharge, with no sensor dropped by Qthr.
C4_PreThresholdCheckFirst ==
    CoronaBegun =>
        /\ Len(caller_pos) = 0 => outcome = "SipmEmptyList"
        /\ (Len(caller_pos) > 0 /\ Sum(caller_qs) = 0) =>
              /\ outcome = "SipmZeroCharge"
              /\ pos = caller_pos /\ qs = caller_qs

\* Zero total charge with a sensor that Qthr would have dropped.
C4_Witness ==
    /\ CoronaBegun
    /\ outcome = "SipmZeroCharge"
    /\ Sum(caller_qs) = 0
    /\ \E i \in 1..Len(caller_qs) : caller_qs[i] < Qthr

\* C5 as stated: when every charge is below Qthr (the threshold empties the
\* set) the call raises SipmEmptyListAboveQthr, and when the sensors that
\* remain have total charge zero it raises SipmZeroChargeAboveQthr.
C5_Original ==
    CoronaBegun =>
        /\ (Len(caller_qs) > 0 /\ Kept = {}) => outcome = "SipmEmptyListAboveQthr"
        /\ (Kept # {} /\ ChargeOf(Kept) = 0) => outcome = "SipmZeroChargeAboveQthr"

\* C5 amended: the same, for a call that passed the pre-threshold check
\* (a non-empty event whose total charge is not zero).
C5_ThresholdFailures ==
    (CoronaBegun /\ PassedPre) =>
        /\ Kept = {} => outcome = "SipmEmptyListAboveQthr"
        /\ (Kept # {} /\ ChargeOf(Kept) = 0) => outcome = "SipmZeroChargeAboveQthr"

C5_Witness ==
    /\ CoronaBegun
    /\ Len(caller_qs) >= 2
    /\ \A i \in 1..Len(caller_qs) : caller_qs[i] < Qthr
    /\ outcome = "SipmEmptyListAboveQthr"

\* Qlm is above every input charge.
QlmAboveMax ==
    /\ CoronaBegun
    /\ Len(caller_qs) > 0
    /\ \A i \in 1..Len(caller_qs) : caller_qs[i] < Qlm

\* No region was grown and the working set is the thresholded input.
NoPeakProcessed ==
    /\ c = <<>>
    /\ last = NoPass
    /\ (PassedPre /\ PassedPost) => ids = SetToSortedSeq(Kept)

\* C6 as stated: with Qlm above the maximum input charge no peak is
\* processed and the call raises ClusterEmptyList.
C6_Original ==
    QlmAboveMax => (NoPeakProcessed /\ (pc = "done" => outcome = "ClusterEmptyList"))

\* C6 amended: with Qlm above the maximum input charge no peak is
\* processed, and a call that passed the checks before and after the
\* threshold raises ClusterEmptyList.
C6_QlmAboveMax ==
    QlmAboveMax =>
        /\ NoPeakProcessed
        /\ (pc = "done" /\ PassedPre /\ PassedPost) => outcome = "ClusterEmptyList"

C6_Witness == QlmAboveMax /\ outcome = "ClusterEmptyList" /\ iters = 1

\* The latest pass appended a cluster.
Appended == Len(c) = last.c_before + 1

\* The inactive rows of the table within new_lm_radius of the refined peak,
\* counted only when consider_masked is set.
MaskedNear ==
    IF consider_masked
    THEN Cardinality({i \in 1..Len(all_sipms) :
            /\ ~ all_sipms[i].Active
            /\ InRange(<<all_sipms[i].X, all_sipms[i].Y>>, last.peak, new_lm_radius)})
    ELSE 0

\* The acceptance test, with no floor on msipm - MaskedNear.
AcceptanceTest == Cardinality(last.region) >= msipm - MaskedNear

\* The region is the remaining sensors within new_lm_radius of the peak.
RegionIsNeighbourhood ==
    last.region = {i \in Range(ids) \cup last.region :
                      InRange(caller_pos[i], last.peak, new_lm_radius)}

\* C7 as stated: the region of a pass is accepted, its cluster appended,
\* exactly when the acceptance test holds.
C7_Original ==
    (CoronaBegun /\ last.grown) =>
        /\ RegionIsNeighbourhood
        /\ Appended <=> AcceptanceTest

\* C7 amended: the cluster is appended exactly when the acceptance test
\* holds and the region is non-empty with non-zero total charge; when the
\* test holds for an empty region the call raises SipmEmptyList, and for a
\* region of total charge zero it raises SipmZeroCharge.
C7_AcceptanceTest ==
    (CoronaBegun /\ last.grown) =>
        /\ RegionIsNeighbourhood
        /\ Appended <=> (/\ AcceptanceTest
                         /\ last.region # {}
                         /\ ChargeOf(last.region) # 0)
        /\ (AcceptanceTest /\ last.region = {}) => outcome = "SipmEmptyList"
        /\ (AcceptanceTest /\ last.region # {} /\ ChargeOf(last.region) = 0)
              => outcome = "SipmZeroCharge"

\* One live sensor, msipm = 2, one inactive table sensor in range: accepted.
C7_Witness ==
    /\ CoronaBegun /\ last.grown
    /\ consider_masked /\ msipm = 2
    /\ Cardinality(last.region) = 1
    /\ MaskedNear = 1
    /\ Appended

\* C8: a lookup returns a clustering strategy or fails with ValueError;
\* no other object of the module namespace is returned.
C8_OnlyStrategiesResolve ==
    pc # "idle" =>
        \/ algo \in Strategies
        \/ algo = "none" /\ outcome = "ValueError"

\* C9: from the call on, the caller's position and charge arrays and the
\* sensor metadata table never change.
C9_CallerArraysUnchanged ==
    [][pc \notin {"idle", "resolved"}
         => UNCHANGED <<caller_pos, caller_qs, all_sipms>>]_vars

\* The working set shrank while the caller's arrays stayed.
C9_Witness ==
    /\ CoronaBegun /\ outcome = "returned"
    /\ Len(qs) < Len(caller_qs)
    /\ Len(caller_qs) >= 2

\* C10: the charges of the hottest sensors that seeded the clusters are
\* non-increasing along the list, each at least every charge summarized by
\* its own and the later clusters.
C10_DiscoveryOrder ==
    /\ Len(seeds) = Len(c)
    /\ \A i, j \in 1..Len(seeds) : i < j => seeds[i] >= seeds[j]
    /\ \A k, j \in 1..Len(seeds) :
         k <= j => \A i \in members[j] : caller_qs[i] <= seeds[k]
    /\ (CoronaCalled /\ outcome = "returned") => ret = c

C10_Witness ==
    /\ CoronaCalled /\ outcome = "returned"
    /\ Len(ret) >= 2
    /\ seeds[1] > seeds[2]

\* C11: every cluster of the list summarizes at least one sensor of charge
\* >= Qlm, and the cluster appended by a pass summarizes the hottest sensor
\* of that pass.
C11_ClusterHoldsPeak ==
    /\ \A k \in 1..Len(members) : \E i \in members[k] : caller_qs[i] >= Qlm
    /\ (CoronaBegun /\ last.grown /\ Appended) => last.hottest \in last.region

\* C12: corona ends with SipmZeroCharge only when the total charge of the
\* caller's sensors is zero.
C12_ZeroChargeOnlyFromInput ==
    (CoronaBegun /\ outcome = "SipmZeroCharge") => Sum(caller_qs) = 0

\* C13: barycenter raises SipmEmptyList on an empty position set (whatever
\* the charge sum), SipmZeroCharge when the charges sum to zero, and
\* otherwise returns one cluster with nsipm = len(qs) and Q = sum(qs).
C13_BarycenterContract ==
    (algo = "barycenter" /\ pc = "done") =>
        IF Len(caller_pos) = 0
        THEN outcome = "SipmEmptyList" /\ ret = <<>>
        ELSE IF Sum(caller_qs) = 0
        THEN outcome = "SipmZeroCharge" /\ ret = <<>>
        ELSE /\ outcome = "returned"
             /\ Len(ret) = 1
             /\ ret[1].nsipm = Len(caller_qs)
             /\ ret[1].Q = Sum(caller_qs)

C13_Witness ==
    /\ algo = "barycenter" /\ pc = "done"
    /\ outcome = "returned"
    /\ Len(caller_qs) >= 2
    /\ \E i \in 1..Len(caller_qs) : caller_qs[i] < 0

\* The local arrays are aligned: sensor k of the working set is the
\* caller's sensor ids[k].
Aligned ==
    /\ Len(pos) = Len(ids) /\ Len(qs) = Len(ids)
    /\ \A k \in 1..Len(ids) :
         pos[k] = caller_pos[ids[k]] /\ qs[k] = caller_qs[ids[k]]

\* C14: a pass that stays in the loop removes exactly the sensors of its
\* region from the working set, accepted or not, keeping pos and qs
\* aligned; a cluster summarizes only sensors still in the working set, so
\* the sensors of a rejected region are in no later cluster.
C14_RegionRemoved ==
    [][(pc = "loop" /\ pc' = "loop") =>
         /\ last'.grown
         /\ last'.region \subseteq Range(ids)
         /\ ids' = SetToSortedSeq(Range(ids) \ last'.region)
         /\ Len(pos') = Len(ids') /\ Len(qs') = Len(ids')
         /\ \A k \in 1..Len(ids') :
              pos'[k] = caller_pos[ids'[k]] /\ qs'[k] = caller_qs[ids'[k]]
         /\ \/ c' = c /\ members' = members
            \/ /\ Len(c') = Len(c) + 1
               /\ members' = Append(members, last'.region)]_vars

\* A first cluster was appended after a rejected region had been removed.
C14_Witness ==
    /\ CoronaBegun /\ pc = "loop"
    /\ Len(c) = 1 /\ last.c_before = 0 /\ iters >= 2
    /\ \E i \in Kept : i \notin Range(ids) /\ i \notin last.region

SummarizedBy(k) ==
    LET m == SetToSortedSeq(members[k])
    IN  /\ c[k].nsipm = Len(m)
        /\ c[k].Q = Sum([j \in 1..Len(m) |-> caller_qs[m[j]]])
        /\ c[k].posxy =
             << Sum([j \in 1..Len(m) |-> caller_qs[m[j]] * caller_pos[m[j]][1]]),
                Sum([j \in 1..Len(m) |-> caller_qs[m[j]] * caller_pos[m[j]][2]]),
                Sum([j \in 1..Len(m) |-> caller_qs[m[j]]]) >>

\* C16: the threshold drops exactly the sensors of charge < Qthr: the
\* working set entering the loop is the sensors of charge >= Qthr (one of
\* charge exactly Qthr stays), and no cluster summarizes a dropped sensor.
C16_ThresholdExact ==
    (CoronaBegun /\ PassedPre) =>
        /\ Aligned
        /\ Range(ids) \subseteq Kept
        /\ iters = 0 => ids = SetToSortedSeq(Kept)
        /\ \A k \in 1..Len(c) : members[k] \subseteq Kept /\ SummarizedBy(k)

\* A returned cluster holds a sensor of charge exactly Qthr while another
\* sensor was dropped.
C16_Witness ==
    /\ CoronaBegun /\ outcome = "returned"
    /\ \E i \in 1..Len(caller_qs) : caller_qs[i] < Qthr
    /\ \E k \in 1..Len(members) : \E i \in members[k] : caller_qs[i] = Qthr

\* C17: when the region of a pass is empty and passes the acceptance test,
\* the call ends with SipmEmptyList and returns nothing, whatever clusters
\* earlier passes accepted.
C17_EmptyRegionAborts ==
    (CoronaBegun /\ last.grown /\ last.region = {} /\ msipm - MaskedNear <= 0) =>
        /\ pc = "done"
        /\ outcome = "SipmEmptyList"
        /\ ret = <<>>

\* The call aborts on an empty region after a cluster had been accepted.
C17_Witness ==
    /\ CoronaBegun /\ last.grown /\ last.region = {}
    /\ msipm - MaskedNear <= 0
    /\ outcome = "SipmEmptyList"
    /\ Len(c) >= 1

NonNegativeCharges == \A i \in 1..Len(caller_qs) : caller_qs[i] >= 0

\* C18: with lm_radius = 0 and non-negative charges the refined peak of a
\* pass is the position of the hottest remaining sensor and the region
\* holds that sensor, and the loop body runs at most as many times as
\* there are sensors of charge >= Qthr.
C18_PinnedPeak ==
    (CoronaBegun /\ PassedPre /\ lm_radius = 0 /\ NonNegativeCharges) =>
        /\ iters <= Cardinality(Kept)
        /\ last.grown =>
             /\ \A i \in Range(ids) \cup last.region :
                  caller_qs[i] <= caller_qs[last.hottest]
             /\ last.peak[1] = caller_pos[last.hottest][1] * last.peak[3]
             /\ last.peak[2] = caller_pos[last.hottest][2] * last.peak[3]
             /\ last.hottest \in last.region

\* Every sensor above the threshold took a pass of its own.
C18_Witness ==
    /\ CoronaBegun /\ PassedPre /\ lm_radius = 0 /\ NonNegativeCharges
    /\ new_lm_radius = 1
    /\ last.grown
    /\ Cardinality(Kept) >= 2
    /\ iters = Cardinality(Kept)

\* C19: with non-negative charges the call never ends with
\* SipmZeroChargeAboveQthr: an input that passed the pre-threshold check
\* and keeps a sensor after the threshold keeps a positive total charge.
C19_NoZeroChargeAboveQthr ==
    (CoronaBegun /\ NonNegativeCharges) =>
        /\ outcome # "SipmZeroChargeAboveQthr"
        /\ (PassedPre /\ Len(ids) > 0 /\ iters = 0) => Sum(qs) > 0
        /\ (PassedPre /\ Kept # {}) => ChargeOf(Kept) > 0

\* A sensor of charge zero is dropped and the rest enters the loop.
C19_Witness ==
    /\ CoronaBegun /\ NonNegativeCharges /\ PassedPre
    /\ pc = "loop" /\ iters = 0
    /\ Len(ids) > 0 /\ Len(ids) < Len(caller_qs)
    /\ \E i \in 1..Len(caller_qs) : caller_qs[i] = 0

====
